---- MODULE Spec2Model ----
(***************************************************************************)
(* Model of lsst.pipe.base connection declarations (config.py) and of the  *)
(* configuration override applier (configOverrides.py).                    *)
(*                                                                         *)
(* Python strings that are formatted or parsed are sequences of one-       *)
(* character strings, so that str.format, string.Formatter.parse and       *)
(* ast.literal_eval are computed, not assumed.  Attribute names and        *)
(* dictionary keys that are only compared are plain TLA+ strings.          *)
(***************************************************************************)
EXTENDS Integers, Sequences, FiniteSets, TLC

VARIABLES
    dct,              \* PipelineTaskConnectionDict of the class body being evaluated
    connectionsClass, \* outcome of PipelineTaskConnectionsMetaclass.__new__
    configClass,      \* outcome of the last task configuration class statement
    config,           \* the configuration object (pex Config instance)
    overrides,        \* ConfigOverrides._overrides
    applied,          \* outcome of the last ConfigOverrides.applyTo call
    instances,        \* live PipelineTaskConnections instances, by id(inst)
    serial,           \* number of PipelineTaskConnections instances created so far
    created,          \* outcome of the last PipelineTaskConnections.__init__ call
    objCache,         \* BaseConnection._objCache of each class-level descriptor
    heap,             \* specialized descriptor objects, by object identity
    got,              \* what each attribute access returned
    quantum,          \* quantum.predictedInputs handed to buildDatasetRefs
    built             \* outcome of the last buildDatasetRefs call

declVars == <<dct, connectionsClass, configClass>>
overVars == <<overrides, applied>>
instVars == <<instances, serial, created, objCache, heap, got>>
refVars  == <<quantum, built>>

vars == <<dct, connectionsClass, configClass, config, overrides, applied, instances, serial, created,
          objCache, heap, got, quantum, built>>

(***************************************************************************)
(* Bounds of the model.                                                    *)
(***************************************************************************)
MaxInserts   == 2   \* connection/attribute assignments in one class body
MaxOverrides == 3   \* length of the override queue
MaxCreated   == 2   \* PipelineTaskConnections instances created in one run
MaxLive      == 2   \* addresses (values of id) the instances of one run may take
MaxRefs      == 2   \* references a quantum holds for one dataset type

(***************************************************************************)
(* Python strings                                                          *)
(***************************************************************************)
\* The None of a tuple slot that otherwise holds a string.
None == <<"None">>

\* First position j >= i with s[j] in cs, or Len(s) + 1.
RECURSIVE Find(_, _, _)
Find(s, i, cs) ==
    IF i > Len(s) THEN Len(s) + 1
    ELSE IF s[i] \in cs THEN i
    ELSE Find(s, i + 1, cs)

FormatItem(lit, fld, spec, conv) ==
    [literal_text |-> lit, field_name |-> fld, format_spec |-> spec, conversion |-> conv]

\* string.Formatter().parse(s): the (literal_text, field_name, format_spec,
\* conversion) tuples of s, for templates without escapes, format specs or
\* conversions.  A lone brace is a ValueError.
RECURSIVE ParseFrom(_, _)
ParseFrom(s, i) ==
    IF i > Len(s) THEN [err |-> "", items |-> <<>>]
    ELSE LET open == Find(s, i, {"{", "}"})
             lit  == SubSeq(s, i, open - 1)
         IN  IF open > Len(s)
             THEN [err |-> "", items |-> <<FormatItem(lit, None, None, None)>>]
             ELSE IF s[open] = "}"
             THEN [err |-> "ValueError", items |-> <<>>]
             ELSE LET close == Find(s, open + 1, {"{", "}"})
                  IN  IF close > Len(s) \/ s[close] = "{"
                      THEN [err |-> "ValueError", items |-> <<>>]
                      ELSE LET rest == ParseFrom(s, close + 1)
                           IN  IF rest.err # "" THEN rest
                               ELSE [err |-> "",
                                     items |-> <<FormatItem(lit, SubSeq(s, open + 1, close - 1),
                                                            <<>>, None)>> \o rest.items]

Parse(s) == ParseFrom(s, 1)

\* The text the items of a parsed template format to, given keyword arguments kw
\* (a function from field names to strings).
RECURSIVE FormatItems(_, _)
FormatItems(items, kw) ==
    IF items = <<>> THEN [err |-> "", s |-> <<>>]
    ELSE LET it   == Head(items)
             rest == FormatItems(Tail(items), kw)
         IN  IF it.field_name = None
             THEN IF rest.err # "" THEN rest
                  ELSE [err |-> "", s |-> it.literal_text \o rest.s]
             ELSE IF it.field_name = <<>>
             THEN [err |-> "IndexError", s |-> <<>>]
             ELSE IF it.field_name \notin DOMAIN kw
             THEN [err |-> "KeyError", s |-> <<>>]
             ELSE IF rest.err # "" THEN rest
             ELSE [err |-> "", s |-> it.literal_text \o kw[it.field_name] \o rest.s]

\* s.format(**kw)
Format(s, kw) ==
    LET p == Parse(s)
    IN  IF p.err # "" THEN [err |-> p.err, s |-> <<>>]
        ELSE FormatItems(p.items, kw)

(***************************************************************************)
(* Connection descriptors (BaseConnection and its subclasses)              *)
(***************************************************************************)
ConnectionClasses == {"Input", "AuxiliaryInput", "Output", "InitInput", "InitOutput"}

\* The classes a class is an instance of (itself and its bases).
Bases(cls) ==
    IF cls \in {"Input", "AuxiliaryInput", "Output"}
    THEN {cls, "DimensionedConnection", "BaseConnection"}
    ELSE IF cls \in {"InitInput", "InitOutput"}
    THEN {cls, "BaseConnection"}
    ELSE {cls}

IsInstance(value, cls) == cls \in Bases(value.class)

\* A descriptor object: its class, its dataclass fields, and the varName that
\* PipelineTaskConnectionDict.__setitem__ records on it.
Connection(cls, name, multiple) ==
    IF "DimensionedConnection" \in Bases(cls)
    THEN [class |-> cls, name |-> name, storageClass |-> "Exposure", differLoad |-> FALSE,
          multiple |-> multiple, checkFunction |-> "None", dimensions |-> {},
          varName |-> <<>>]
    ELSE [class |-> cls, name |-> name, storageClass |-> "Exposure", differLoad |-> FALSE,
          multiple |-> multiple, checkFunction |-> "None", varName |-> <<>>]

\* A class-body value that is no connection descriptor.
NotAConnection == [class |-> "object"]

\* dataclasses.fields(descriptor): the names of its dataclass fields.
Fields(d) == DOMAIN d \ {"class", "varName"}

(***************************************************************************)
(* Inputs of the model                                                     *)
(***************************************************************************)
\* Attribute names of the class body (Python identifiers, as strings).
Exposure == <<"e">>
Calexp   == <<"c">>
AttributeNames == {Exposure, Calexp}

NamePlain    == <<"a">>
NameEmpty    == <<>>
NameTemplate == <<"{", "f", "}", "a">>
NameTwo      == <<"{", "f", "}", "{", "g", "}">>
Names        == {NamePlain, NameEmpty, NameTemplate, NameTwo}

KeyF == <<"f">>
KeyG == <<"g">>

NoTemplates   == [k \in {} |-> <<>>]
TemplatesF    == [k \in {KeyF} |-> <<"b">>]
TemplatesFG   == [k \in {KeyF, KeyG} |-> IF k = KeyF THEN <<"b">> ELSE <<"a">>]
TemplateMaps  == {NoTemplates, TemplatesF, TemplatesFG}

\* Descriptors a class body of the declaration runs assigns.
Connections == {Connection(c, n, FALSE) : c \in ConnectionClasses, n \in Names}

\* Values of a dimensions attribute: a tuple of dimension names, or a value
\* that set() cannot iterate.
DimensionValues == {[iterable |-> TRUE,  elems |-> {}],
                    [iterable |-> TRUE,  elems |-> {"visit"}],
                    [iterable |-> FALSE, elems |-> {}]}

\* Class names: the base class, named in full because __new__ compares it, and
\* a derived class.
BaseConnectionsName ==
    <<"P", "i", "p", "e", "l", "i", "n", "e", "T", "a", "s", "k",
      "C", "o", "n", "n", "e", "c", "t", "i", "o", "n", "s">>
DerivedConnectionsName == <<"F">>
ClassNames == {BaseConnectionsName, DerivedConnectionsName}

(***************************************************************************)
(* PipelineTaskConnectionDict                                              *)
(***************************************************************************)
Put(f, k, v) == [x \in DOMAIN f \cup {k} |-> IF x = k THEN v ELSE f[x]]

\* PipelineTaskConnectionDict.__init__
EmptyDict ==
    [inputs |-> <<>>, auxiliaryInputs |-> <<>>, outputs |-> <<>>,
     initInputs |-> <<>>, initOutputs |-> <<>>,
     allConnections |-> [k \in {} |-> NotAConnection],
     allOrder |-> <<>>,
     data |-> [k \in {} |-> NotAConnection],
     dimensions |-> [present |-> FALSE, iterable |-> FALSE, elems |-> {}],
     defaultTemplates |-> [present |-> FALSE, map |-> NoTemplates]]

AppendIf(cond, list, name) == IF cond THEN Append(list, name) ELSE list

\* PipelineTaskConnectionDict.__setitem__(name, value) for an attribute of the
\* class body: a descriptor or any other value.
SetItem(d, name, value) ==
    LET named == IF IsInstance(value, "BaseConnection")
                 THEN [value EXCEPT !.varName = name] ELSE value
    IN  [d EXCEPT
          !.inputs          = AppendIf(IsInstance(value, "Input"), @, name),
          !.auxiliaryInputs = AppendIf(IsInstance(value, "AuxiliaryInput"), @, name),
          !.outputs         = AppendIf(IsInstance(value, "Output"), @, name),
          !.initInputs      = AppendIf(IsInstance(value, "InitInput"), @, name),
          !.initOutputs     = AppendIf(IsInstance(value, "InitOutput"), @, name),
          !.allConnections  = IF IsInstance(value, "BaseConnection")
                              THEN Put(@, name, named) ELSE @,
          !.allOrder        = IF IsInstance(value, "BaseConnection") /\ name \notin DOMAIN d.allConnections
                              THEN Append(@, name) ELSE @,
          !.data            = Put(@, name, named)]

\* __setitem__('dimensions', value): no descriptor, only stored.
SetDimensionsItem(d, value) ==
    [d EXCEPT !.dimensions = [present |-> TRUE, iterable |-> value.iterable,
                              elems |-> value.elems]]

\* __setitem__('defaultTemplates', value): no descriptor, only stored.
SetDefaultTemplatesItem(d, map) ==
    [d EXCEPT !.defaultTemplates = [present |-> TRUE, map |-> map]]

(***************************************************************************)
(* PipelineTaskConnectionsMetaclass.__new__                                *)
(***************************************************************************)
\* The class object type.__new__ makes of a class body: dict(dct) becomes its
\* attributes.
ClassOf(name, d) ==
    [name |-> name,
     dimensions |-> d.dimensions.elems,
     inputs |-> d.inputs, auxiliaryInputs |-> d.auxiliaryInputs, outputs |-> d.outputs,
     initInputs |-> d.initInputs, initOutputs |-> d.initOutputs,
     allConnections |-> d.allConnections, allOrder |-> d.allOrder,
     data |-> d.data,
     defaultTemplates |-> d.defaultTemplates]

NoClass == ClassOf(<<>>, EmptyDict)

\* What a class statement leaves: the class made, or the exception raised.
Created(name, cls) == [status |-> "created", declared |-> name, err |-> "", cls |-> cls]
Raised(name, err)  == [status |-> "error", declared |-> name, err |-> err, cls |-> NoClass]
NotDeclared        == [status |-> "none", declared |-> <<>>, err |-> "", cls |-> NoClass]

Range(seq) == {seq[i] : i \in DOMAIN seq}

\* The loop over dct['allConnections'].items(): every tuple that parse yields
\* for a connection name is added to allTemplates, whole.
ParseErrors(d) == {a \in DOMAIN d.allConnections : Parse(d.allConnections[a].name).err # ""}

AllTemplates(d) ==
    UNION {Range(Parse(d.allConnections[a].name).items) : a \in DOMAIN d.allConnections}

\* The loop rebinds the parameter name to every key of allConnections in turn.
NameAfterLoop(name, d) ==
    IF d.allOrder = <<>> THEN name ELSE d.allOrder[Len(d.allOrder)]

\* The branch guarded by len(allTemplates) < 0.
CheckTemplateKeys(allTemplates, d) ==
    LET defaultTemplateKeys == DOMAIN d.defaultTemplates.map
        templateDifference  == allTemplates \ defaultTemplateKeys
    IN  IF templateDifference # {} THEN "TypeError"
        ELSE "AttributeError"   \* set has no method inserset

ClassNew(name, d) ==
    IF name # BaseConnectionsName
    THEN IF ~d.dimensions.present THEN Raised(name, "TypeError")
         ELSE IF ~d.dimensions.iterable THEN Raised(name, "TypeError")
         ELSE IF ParseErrors(d) # {} THEN Raised(name, "ValueError")
         ELSE LET allTemplates == AllTemplates(d)
              IN  IF Cardinality(allTemplates) > 0 /\ ~d.defaultTemplates.present
                  THEN Raised(name, "TypeError")
                  ELSE IF Cardinality(allTemplates) < 0
                  THEN Raised(name, CheckTemplateKeys(allTemplates, d))
                  ELSE Created(name, ClassOf(NameAfterLoop(name, d), d))
    ELSE Created(name, ClassOf(name, d))

(***************************************************************************)
(* Python values held by configuration fields and overrides                *)
(***************************************************************************)
PyInt(n) == [t |-> "int", i |-> n, s |-> <<>>]
PyStr(s) == [t |-> "str", i |-> 0, s |-> s]
PyNone   == [t |-> "NoneType", i |-> 0, s |-> <<>>]

Digits == {"0", "1", "2", "3", "4", "5", "6", "7", "8", "9"}

DigitValue(c) ==
    CASE c = "0" -> 0 [] c = "1" -> 1 [] c = "2" -> 2 [] c = "3" -> 3 [] c = "4" -> 4
      [] c = "5" -> 5 [] c = "6" -> 6 [] c = "7" -> 7 [] c = "8" -> 8 [] c = "9" -> 9

RECURSIVE Decimal(_)
Decimal(s) ==
    IF s = <<>> THEN 0 ELSE 10 * Decimal(SubSeq(s, 1, Len(s) - 1)) + DigitValue(s[Len(s)])

IsDecimal(s) ==
    /\ s # <<>>
    /\ \A i \in DOMAIN s : s[i] \in Digits
    /\ (Len(s) > 1 => s[1] # "0")

\* ast.literal_eval(s) for decimal integers (with an optional sign) and quoted
\* strings without escapes; any other text is no literal.
LiteralEval(s) ==
    IF IsDecimal(s) THEN [err |-> "", value |-> PyInt(Decimal(s))]
    ELSE IF Len(s) >= 2 /\ s[1] = "-" /\ IsDecimal(Tail(s))
    THEN [err |-> "", value |-> PyInt(0 - Decimal(Tail(s)))]
    ELSE IF /\ Len(s) >= 2 /\ s[1] = "'" /\ s[Len(s)] = "'"
            /\ \A i \in 2..(Len(s) - 1) : s[i] \notin {"'", "\\"}
    THEN [err |-> "", value |-> PyStr(SubSeq(s, 2, Len(s) - 1))]
    ELSE [err |-> "ValueError", value |-> PyNone]

\* s.split('.')
RECURSIVE SplitFrom(_, _)
SplitFrom(s, i) ==
    LET j == Find(s, i, {"."})
    IN  IF j > Len(s) THEN <<SubSeq(s, i, Len(s))>>
        ELSE <<SubSeq(s, i, j - 1)>> \o SplitFrom(s, j + 1)

Split(s) == SplitFrom(s, 1)

(***************************************************************************)
(* Configuration classes and objects                                       *)
(***************************************************************************)
ConnectionsName == <<"c", "o", "n", "n", "e", "c", "t", "i", "o", "n", "s">>
MinMemoryMB     == <<"m", "i", "n", "M", "e", "m", "o", "r", "y", "M", "B">>
MinNumCores     == <<"m", "i", "n", "N", "u", "m", "C", "o", "r", "e", "s">>

NewPipelineTaskConfigName ==
    <<"N", "e", "w", "P", "i", "p", "e", "l", "i", "n", "e", "T", "a", "s", "k",
      "C", "o", "n", "f", "i", "g">>
PipelineTaskConfigName ==
    <<"P", "i", "p", "e", "l", "i", "n", "e", "T", "a", "s", "k",
      "C", "o", "n", "f", "i", "g">>
DerivedConfigName == <<"T">>
ConfigClassNames == {PipelineTaskConfigName, NewPipelineTaskConfigName, DerivedConfigName}

NoFields == [k \in {} |-> PyNone]
NoDtypes == [k \in {} |-> "str"]

\* ResourceConfig(): its two integer fields at their defaults.
ResourceConfig ==
    [isPipelineTaskConfig |-> FALSE,
     dtypes |-> [k \in {MinMemoryMB, MinNumCores} |-> "int"],
     values |-> [k \in {MinMemoryMB, MinNumCores} |->
                    IF k = MinMemoryMB THEN PyNone ELSE PyInt(1)],
     hasConnections |-> FALSE,
     connections |-> NoFields]

\* The namespace PipelineTaskConfigMeta.__new__ builds for the Connections
\* config class: one str field per connection, defaulting to its name, then
\* one per default template, which replaces a field of the same name.
ConfigConnectionsNamespace(cls) ==
    LET templates == IF cls.defaultTemplates.present THEN cls.defaultTemplates.map
                     ELSE NoTemplates
    IN  [k \in DOMAIN cls.allConnections \cup DOMAIN templates |->
            IF k \in DOMAIN templates THEN templates[k] ELSE cls.allConnections[k].name]

\* PipelineTaskConfigMeta.__new__(name, pipelineConnections=...): the error it
\* raises, or the defaults of the connections fields of the new class.
\* given: the keyword argument is there; isConnections: it is a subclass of
\* PipelineTaskConnections.
ConfigClassNew(name, given, isConnections, cls) ==
    IF name # NewPipelineTaskConfigName
    THEN IF ~given THEN [err |-> "NameError", hasConnections |-> FALSE, defaults |-> NoTemplates]
         ELSE IF ~isConnections
         THEN [err |-> "ValueError", hasConnections |-> FALSE, defaults |-> NoTemplates]
         ELSE [err |-> "", hasConnections |-> TRUE, defaults |-> ConfigConnectionsNamespace(cls)]
    ELSE [err |-> "", hasConnections |-> FALSE, defaults |-> NoTemplates]

\* What a task configuration class statement leaves: the class made with the
\* defaults of its connections fields, or the exception raised.  given: the
\* statement passed pipelineConnections.
NoConfigClass ==
    [status |-> "none", name |-> <<>>, given |-> FALSE, err |-> "",
     hasConnections |-> FALSE, defaults |-> NoTemplates]

ConfigClassStatement(name, given, isConnections, cls) ==
    LET r == ConfigClassNew(name, given, isConnections, cls)
    IN  [status |-> IF r.err = "" THEN "created" ELSE "error",
         name |-> name, given |-> given, err |-> r.err,
         hasConnections |-> r.hasConnections, defaults |-> r.defaults]

\* An instance of a declared task configuration class: every field at its
\* default.
ConfigInstance(class) ==
    [isPipelineTaskConfig |-> TRUE,
     dtypes |-> NoDtypes,
     values |-> NoFields,
     hasConnections |-> class.hasConnections,
     connections |-> [k \in DOMAIN class.defaults |-> PyStr(class.defaults[k])]]

\* An instance of the task configuration class declared for connections class
\* cls: every field at its default.
TaskConfig(cls) ==
    LET defaults == ConfigClassNew(DerivedConfigName, TRUE, TRUE, cls).defaults
    IN  [isPipelineTaskConfig |-> TRUE,
         dtypes |-> NoDtypes,
         values |-> NoFields,
         hasConnections |-> TRUE,
         connections |-> [k \in DOMAIN defaults |-> PyStr(defaults[k])]]

\* getattr(obj, attr) while walking a dotted path.  obj is "config" (the
\* configuration), "connections" (its connections sub-object) or "other" (a
\* field value or other plain object).
GetAttr(cfg, obj, attr) ==
    IF obj = "config"
    THEN IF cfg.hasConnections /\ attr = ConnectionsName THEN [err |-> "", obj |-> "connections"]
         ELSE IF attr \in DOMAIN cfg.values THEN [err |-> "", obj |-> "other"]
         ELSE [err |-> "AttributeError", obj |-> "other"]
    ELSE IF obj = "connections"
    THEN IF attr \in DOMAIN cfg.connections \cup {ConnectionsName}
         THEN [err |-> "", obj |-> "other"]
         ELSE [err |-> "AttributeError", obj |-> "other"]
    ELSE [err |-> "AttributeError", obj |-> "other"]

RECURSIVE WalkPath(_, _, _)
WalkPath(cfg, obj, attrs) ==
    IF attrs = <<>> THEN [err |-> "", obj |-> obj]
    ELSE LET r == GetAttr(cfg, obj, Head(attrs))
         IN  IF r.err # "" THEN r ELSE WalkPath(cfg, r.obj, Tail(attrs))

\* obj._fields[leaf].dtype
Dtype(cfg, obj, leaf) ==
    IF obj = "config"
    THEN IF leaf \in DOMAIN cfg.dtypes THEN [err |-> "", dtype |-> cfg.dtypes[leaf]]
         ELSE IF cfg.hasConnections /\ leaf = ConnectionsName
         THEN [err |-> "", dtype |-> "Connections"]
         ELSE [err |-> "KeyError", dtype |-> ""]
    ELSE IF obj = "connections"
    THEN IF leaf \in DOMAIN cfg.connections THEN [err |-> "", dtype |-> "str"]
         ELSE [err |-> "KeyError", dtype |-> ""]
    ELSE [err |-> "AttributeError", dtype |-> ""]

\* setattr(obj, leaf, value): the field assignment of the configuration
\* library, which refuses an unknown field and a value of another type than
\* the field's.
SetAttr(cfg, obj, leaf, value) ==
    LET d == Dtype(cfg, obj, leaf)
    IN  IF d.err # "" THEN [err |-> "AttributeError", config |-> cfg]
        ELSE IF value.t # "NoneType" /\ value.t # d.dtype
        THEN [err |-> "FieldValidationError", config |-> cfg]
        ELSE IF obj = "config"
        THEN [err |-> "", config |-> [cfg EXCEPT !.values[leaf] = value]]
        ELSE [err |-> "", config |-> [cfg EXCEPT !.connections[leaf] = value]]

(***************************************************************************)
(* ConfigOverrides                                                         *)
(***************************************************************************)
FileOverride(filename) ==
    [otype |-> "file", filename |-> filename, field |-> <<>>, value |-> PyNone,
     nameDict |-> NoTemplates]
ValueOverride(field, value) ==
    [otype |-> "value", filename |-> <<>>, field |-> field, value |-> value,
     nameDict |-> NoTemplates]
NamesDictOverride(nameDict) ==
    [otype |-> "namesDict", filename |-> <<>>, field |-> <<>>, value |-> PyNone,
     nameDict |-> nameDict]

\* Override files of the run: an existing file holds assignment statements,
\* config.<path> = <value>, that run in order; the second statement of
\* FilePartial assigns a text to an integer field; FileMissing names no file.
FileCores   == <<"r">>
FileName    == <<"n">>
FilePartial == <<"p">>
FileMissing == <<"m">>
FileNames   == {FileCores, FileName, FilePartial, FileMissing}

PathOf(obj, leaf) == IF obj = <<>> THEN leaf ELSE obj \o <<".">> \o leaf

Statement(field, value) == [field |-> field, value |-> value]

FileContents(filename) ==
    IF filename = FileCores
    THEN [exists |-> TRUE, statements |-> <<Statement(MinNumCores, PyInt(4))>>]
    ELSE IF filename = FileName
    THEN [exists |-> TRUE,
          statements |-> <<Statement(PathOf(ConnectionsName, Exposure), PyStr(<<"b">>))>>]
    ELSE IF filename = FilePartial
    THEN [exists |-> TRUE,
          statements |-> <<Statement(MinMemoryMB, PyInt(3)),
                           Statement(MinMemoryMB, PyStr(<<"b">>))>>]
    ELSE [exists |-> FALSE, statements |-> <<>>]

\* The assignment obj.leaf = value of a dotted path, as Python executes it.
Assign(cfg, path, value) ==
    LET field == Split(path)
        w     == WalkPath(cfg, "config", SubSeq(field, 1, Len(field) - 1))
    IN  IF w.err # "" THEN [err |-> w.err, config |-> cfg]
        ELSE SetAttr(cfg, w.obj, field[Len(field)], value)

\* The statements of an override file running in order: an exception ends the
\* run and keeps what the statements before it assigned.
RECURSIVE RunStatements(_, _)
RunStatements(cfg, statements) ==
    IF statements = <<>> THEN [err |-> "", config |-> cfg]
    ELSE LET r == Assign(cfg, Head(statements).field, Head(statements).value)
         IN  IF r.err # "" THEN r ELSE RunStatements(r.config, Tail(statements))

\* config.load(filename): the configuration library runs the file against
\* the configuration.
Load(cfg, filename) ==
    LET f == FileContents(filename)
    IN  IF ~f.exists THEN [err |-> "FileNotFoundError", config |-> cfg]
        ELSE RunStatements(cfg, f.statements)

\* applyTo without the conversion of text: the value is assigned as given.
ApplyValueUnparsed(cfg, path, value) == Assign(cfg, path, value)

\* The value branch of applyTo.
ApplyValue(cfg, path, value) ==
    LET field == Split(path)
        w     == WalkPath(cfg, "config", SubSeq(field, 1, Len(field) - 1))
        leaf  == field[Len(field)]
    IN  IF w.err # "" THEN [err |-> w.err, config |-> cfg]
        ELSE IF value.t = "str"
        THEN LET d == Dtype(cfg, w.obj, leaf)
             IN  IF d.err # "" THEN [err |-> d.err, config |-> cfg]
                 ELSE IF d.dtype # "str"
                 THEN LET lit == LiteralEval(value.s)
                      IN  IF lit.err # ""
                          THEN [err |-> "RuntimeError(Unable to parse)", config |-> cfg]
                          ELSE SetAttr(cfg, w.obj, leaf, lit.value)
                 ELSE SetAttr(cfg, w.obj, leaf, value)
        ELSE SetAttr(cfg, w.obj, leaf, value)

\* The namesDict branch of applyTo.  config.formatTemplateNames is looked up
\* on a PipelineTaskConfig, which defines no such method.
ApplyNamesDict(cfg, nameDict) ==
    IF ~cfg.isPipelineTaskConfig
    THEN [err |-> "RuntimeError(Dataset name substitution)", config |-> cfg]
    ELSE [err |-> "AttributeError", config |-> cfg]

\* One iteration of the loop of applyTo.
ApplyOne(cfg, o) ==
    IF o.otype = "file" THEN Load(cfg, o.filename)
    ELSE IF o.otype = "value" THEN ApplyValue(cfg, o.field, o.value)
    ELSE IF o.otype = "namesDict" THEN ApplyNamesDict(cfg, o.nameDict)
    ELSE [err |-> "", config |-> cfg]

\* applyTo replaying the queue from its last entry to its first.
RECURSIVE ApplyBackwards(_, _, _)
ApplyBackwards(cfg, q, i) ==
    IF i > Len(q) THEN [err |-> "", at |-> 0, config |-> cfg]
    ELSE LET r == ApplyOne(cfg, q[Len(q) + 1 - i])
         IN  IF r.err # "" THEN [err |-> r.err, at |-> Len(q) + 1 - i, config |-> r.config]
             ELSE ApplyBackwards(r.config, q, i + 1)

\* applyTo going on with the next entry after an entry raised, and reporting
\* the first exception at the end.
RECURSIVE ApplyPastFailure(_, _, _)
ApplyPastFailure(cfg, q, i) ==
    IF i > Len(q) THEN [err |-> "", at |-> 0, config |-> cfg]
    ELSE LET r    == ApplyOne(cfg, q[i])
             rest == ApplyPastFailure(r.config, q, i + 1)
         IN  IF r.err # "" THEN [err |-> r.err, at |-> i, config |-> rest.config]
             ELSE rest

\* The loop of applyTo from entry i on: the configuration it leaves, the
\* exception that ended it and the entry that raised it.
RECURSIVE ApplyFrom(_, _, _)
ApplyFrom(cfg, q, i) ==
    IF i > Len(q) THEN [err |-> "", at |-> 0, config |-> cfg]
    ELSE LET r == ApplyOne(cfg, q[i])
         IN  IF r.err # "" THEN [err |-> r.err, at |-> i, config |-> r.config]
             ELSE ApplyFrom(r.config, q, i + 1)

\* Values and paths the run draws overrides from.
OverrideValues == {PyInt(1), PyInt(2), PyStr(<<"5">>), PyStr(<<"b">>)}
OverridePaths  == {MinNumCores, PathOf(ConnectionsName, Exposure)}
NameDicts      == {[k \in {KeyF} |-> <<"c">>]}

NotApplied == [status |-> "none", err |-> "", at |-> 0, n |-> 0]

\* ConfigOverrides.addFileOverride
AddFileOverride(filename) ==
    /\ Len(overrides) < MaxOverrides
    /\ overrides' = overrides \o <<FileOverride(filename)>>
    /\ UNCHANGED <<declVars, config, applied, instVars, refVars>>

\* ConfigOverrides.addValueOverride
AddValueOverride(field, value) ==
    /\ Len(overrides) < MaxOverrides
    /\ overrides' = overrides \o <<ValueOverride(field, value)>>
    /\ UNCHANGED <<declVars, config, applied, instVars, refVars>>

\* ConfigOverrides.addDatasetNameSubstitution
AddDatasetNameSubstitution(nameDict) ==
    /\ Len(overrides) < MaxOverrides
    /\ overrides' = overrides \o <<NamesDictOverride(nameDict)>>
    /\ UNCHANGED <<declVars, config, applied, instVars, refVars>>

\* ConfigOverrides.applyTo(config)
ApplyTo ==
    LET r == ApplyFrom(config, overrides, 1)
    IN  /\ config' = r.config
        /\ applied' = [status |-> IF r.err = "" THEN "ok" ELSE "raised",
                       err |-> r.err, at |-> r.at, n |-> Len(overrides)]
        /\ UNCHANGED <<declVars, overrides, instVars, refVars>>

(***************************************************************************)
(* PipelineTaskConnections instances                                       *)
(***************************************************************************)
Addresses == 1..MaxLive

NoNames == [k \in {} |-> <<>>]
NoInstance == [live |-> FALSE, serial |-> 0, nameOverrides |-> NoNames]

\* templateValues of __init__: the connections field of every default template.
TemplateValues(cfg, cls) ==
    LET keys == IF cls.defaultTemplates.present THEN DOMAIN cls.defaultTemplates.map ELSE {}
    IN  [k \in keys |-> cfg.connections[k].s]

\* __init__ formatting the name the descriptor was declared with.
FormattedDeclaredName(cfg, cls, name) ==
    Format(cls.allConnections[name].name, TemplateValues(cfg, cls))

\* The name __init__ resolves for one attribute: the connections field of the
\* attribute, formatted with the template values.
FormattedName(cfg, cls, name) ==
    Format(cfg.connections[name].s, TemplateValues(cfg, cls))

\* The first error of the comprehension over allConnections.keys(), in order.
RECURSIVE FirstError(_, _, _)
FirstError(cfg, cls, names) ==
    IF names = <<>> THEN ""
    ELSE IF FormattedName(cfg, cls, Head(names)).err # ""
    THEN FormattedName(cfg, cls, Head(names)).err
    ELSE FirstError(cfg, cls, Tail(names))

\* PipelineTaskConnections.__init__(config=...): given is FALSE for config=None.
ConnectionsInit(given, cfg, cls) ==
    IF ~given \/ ~cfg.isPipelineTaskConfig
    THEN [err |-> "ValueError", nameOverrides |-> NoNames]
    ELSE IF FirstError(cfg, cls, cls.allOrder) # ""
    THEN [err |-> FirstError(cfg, cls, cls.allOrder), nameOverrides |-> NoNames]
    ELSE [err |-> "",
          nameOverrides |-> [name \in DOMAIN cls.allConnections |->
                                FormattedName(cfg, cls, name).s]]

\* self.__class__(**params) of __get__: the fields of the class-level
\* descriptor with name replaced by the instance's override.
Specialized(descriptor, inst) ==
    [f \in DOMAIN descriptor |->
        IF f = "name" THEN inst.nameOverrides[descriptor.varName]
        ELSE IF f \in Fields(descriptor) \cup {"class"} THEN descriptor[f]
        ELSE <<>>]

\* The key __get__ caches under: id(inst).
CacheKey(address) == address

\* BaseConnection.__get__(inst, klass) for the descriptor stored under attr,
\* inst living at address: the caches and heap it leaves and the object it
\* returns (0: the attribute is no descriptor and is returned as it is).
Get(cls, cache, objects, insts, address, attr) ==
    LET descriptor == cls.data[attr]
        key        == CacheKey(address)
    IN  IF ~IsInstance(descriptor, "BaseConnection")
        THEN [objCache |-> cache, heap |-> objects, obj |-> 0]
        ELSE IF cache[attr][key] # 0
        THEN [objCache |-> cache, heap |-> objects, obj |-> cache[attr][key]]
        ELSE [objCache |-> [cache EXCEPT ![attr][key] = Len(objects) + 1],
              heap |-> Append(objects, Specialized(descriptor, insts[address])),
              obj |-> Len(objects) + 1]

EmptyCache == [a \in AttributeNames |-> [k \in Addresses |-> 0]]

\* The attribute the runs read from instances.
AccessedAttributes == {Exposure}

\* Values a connections field is assigned while a run configures a task.
AssignedNames == {<<"b">>, <<"{", "g", "}">>}

\* config.connections.<name> = value, before a task is constructed.
ConfigAssign(name, value) ==
    LET r == Assign(config, PathOf(ConnectionsName, name), PyStr(value))
    IN  /\ r.err = ""
        /\ config' = r.config
        /\ UNCHANGED <<declVars, overVars, instVars, refVars>>

\* connectionsClass(config=...) at a free address.
Create(given, address) ==
    LET r == ConnectionsInit(given, config, connectionsClass.cls)
    IN  /\ connectionsClass.status = "created"
        /\ serial < MaxCreated
        /\ ~instances[address].live
        /\ serial' = serial + 1
        /\ created' = [err |-> r.err, address |-> IF r.err = "" THEN address ELSE 0]
        /\ instances' = IF r.err = ""
                        THEN [instances EXCEPT ![address] =
                                 [live |-> TRUE, serial |-> serial + 1,
                                  nameOverrides |-> r.nameOverrides]]
                        ELSE instances
        /\ UNCHANGED <<declVars, config, overVars, objCache, heap, got, refVars>>

\* getattr(inst, attr) for a class-body attribute.
Access(address, attr) ==
    LET r == Get(connectionsClass.cls, objCache, heap, instances, address, attr)
    IN  /\ instances[address].live
        /\ attr \in DOMAIN connectionsClass.cls.data
        /\ objCache' = r.objCache
        /\ heap' = r.heap
        /\ got' = got \cup {[serial |-> instances[address].serial, attr |-> attr, obj |-> r.obj]}
        /\ UNCHANGED <<declVars, config, overVars, instances, serial, created, refVars>>

\* The last reference to an instance goes away: its address is free again.
Destroy(address) ==
    /\ instances[address].live
    /\ instances' = [instances EXCEPT ![address] = NoInstance]
    /\ UNCHANGED <<declVars, config, overVars, serial, created, objCache, heap, got, refVars>>

(***************************************************************************)
(* PipelineTaskConnections.buildDatasetRefs                                *)
(***************************************************************************)
\* A dataset reference of a quantum and its data identifier.
Ref(i) == [ref |-> i, dataId |-> [visit |-> i]]

\* Reference lists of at most MaxRefs distinct references.
RefLists ==
    UNION {{s \in [1..n -> {Ref(i) : i \in 1..MaxRefs}] :
               \A i, j \in 1..n : i # j => s[i] # s[j]} : n \in 0..MaxRefs}

DatasetNames == {<<"a">>, <<"b", "a">>}

\* quantum.predictedInputs: reference lists by dataset type name.
Quanta == UNION {[D -> RefLists] : D \in SUBSET DatasetNames}

NoEntries == [k \in {} |-> [list |-> FALSE, items |-> <<>>]]
NoIds     == [k \in {} |-> [list |-> FALSE, items |-> <<>>]]

NotBuilt ==
    [status |-> "none", on |-> 0, err |-> "", key |-> <<>>, count |-> 0,
     inputs |-> NoEntries, outputs |-> NoEntries, inputIds |-> NoIds, outputIds |-> NoIds]

DataIds(refs) == [i \in DOMAIN refs |-> refs[i].dataId]

LoopRaised(st, err, key, count) ==
    [st EXCEPT !.err = err, !.key = key, !.count = count]

\* The inner loop of buildDatasetRefs over names, filling refs and ids.
\* st carries the caches, the two dictionaries and the exception raised.
RECURSIVE BuildLoop(_, _, _, _, _, _)
BuildLoop(cls, insts, address, q, names, st) ==
    IF names = <<>> \/ st.err # "" THEN st
    ELSE
      LET attributeName == Head(names)
          g  == Get(cls, st.objCache, st.heap, insts, address, attributeName)
          s1 == [st EXCEPT !.objCache = g.objCache, !.heap = g.heap]
      IN  IF g.obj = 0 THEN LoopRaised(s1, "AttributeError", attributeName, 0)
          ELSE
            LET attribute == g.heap[g.obj]
            IN  IF attribute.name \notin DOMAIN q
                THEN LoopRaised(s1, "KeyError", attributeName, 0)
                ELSE
                  LET quantumInputRefs == q[attribute.name]
                      quantumInputIds  == DataIds(quantumInputRefs)
                  IN  IF "multi" \notin DOMAIN attribute
                      THEN LoopRaised(s1, "AttributeError", attributeName, 0)
                      ELSE IF ~attribute.multi
                      THEN IF Len(quantumInputRefs) # 1
                           THEN LoopRaised(s1, "ScalarError", attributeName,
                                           Len(quantumInputRefs))
                           ELSE BuildLoop(cls, insts, address, q, Tail(names),
                                  [s1 EXCEPT
                                     !.refs = Put(@, attributeName,
                                                  [list |-> FALSE,
                                                   items |-> <<quantumInputRefs[1]>>]),
                                     !.ids  = Put(@, attributeName,
                                                  [list |-> FALSE,
                                                   items |-> <<quantumInputIds[1]>>])])
                      ELSE BuildLoop(cls, insts, address, q, Tail(names),
                             [s1 EXCEPT
                                !.refs = Put(@, attributeName,
                                             [list |-> TRUE, items |-> quantumInputRefs]),
                                !.ids  = Put(@, attributeName,
                                             [list |-> TRUE, items |-> quantumInputIds])])

\* buildDatasetRefs(quantum, butler) on the instance at address: the outcome
\* and the caches the attribute accesses leave.
BuildRefs(cls, cache, objects, insts, address, q) ==
    LET start == [objCache |-> cache, heap |-> objects, refs |-> NoEntries, ids |-> NoIds,
                  err |-> "", key |-> <<>>, count |-> 0]
        ins   == BuildLoop(cls, insts, address, q, cls.inputs \o cls.auxiliaryInputs, start)
        outs  == BuildLoop(cls, insts, address, q, cls.outputs,
                           [ins EXCEPT !.refs = NoEntries, !.ids = NoIds])
    IN  IF ins.err # ""
        THEN [objCache |-> ins.objCache, heap |-> ins.heap,
              built |-> [NotBuilt EXCEPT !.status = "raised", !.err = ins.err,
                                         !.key = ins.key, !.count = ins.count]]
        ELSE IF outs.err # ""
        THEN [objCache |-> outs.objCache, heap |-> outs.heap,
              built |-> [NotBuilt EXCEPT !.status = "raised", !.err = outs.err,
                                         !.key = outs.key, !.count = outs.count]]
        ELSE [objCache |-> outs.objCache, heap |-> outs.heap,
              built |-> [NotBuilt EXCEPT !.status = "returned",
                                         !.inputs = ins.refs, !.inputIds = ins.ids,
                                         !.outputs = outs.refs, !.outputIds = outs.ids]]

\* The execution framework hands the task a quantum.
MakeQuantum(q) ==
    /\ quantum' = q
    /\ built' = NotBuilt
    /\ UNCHANGED <<declVars, config, overVars, instVars>>

\* inst.buildDatasetRefs(quantum, butler)
BuildDatasetRefs(address) ==
    LET r == BuildRefs(connectionsClass.cls, objCache, heap, instances, address, quantum)
    IN  /\ instances[address].live
        /\ objCache' = r.objCache
        /\ heap' = r.heap
        /\ built' = [r.built EXCEPT !.on = address]
        /\ UNCHANGED <<declVars, config, overVars, instances, serial, created, got, quantum>>

(***************************************************************************)
(* Declaring a connections class                                           *)
(***************************************************************************)
Inserted(d) ==
    Len(d.inputs) + Len(d.auxiliaryInputs) + Len(d.outputs)
        + Len(d.initInputs) + Len(d.initOutputs)

\* A statement  name = value  of the class body.
DeclareAttribute(name, value) ==
    /\ connectionsClass.status = "none"
    /\ IsInstance(value, "BaseConnection") => Inserted(dct) < MaxInserts
    /\ dct' = SetItem(dct, name, value)
    /\ UNCHANGED <<connectionsClass, configClass, config, overVars, instVars, refVars>>

\* The statement  dimensions = value  of the class body.
DeclareDimensions(value) ==
    /\ connectionsClass.status = "none"
    /\ dct' = SetDimensionsItem(dct, value)
    /\ UNCHANGED <<connectionsClass, configClass, config, overVars, instVars, refVars>>

\* The statement  defaultTemplates = {...}  of the class body.
DeclareDefaultTemplates(map) ==
    /\ connectionsClass.status = "none"
    /\ dct' = SetDefaultTemplatesItem(dct, map)
    /\ UNCHANGED <<connectionsClass, configClass, config, overVars, instVars, refVars>>

\* The class body ends: the metaclass makes the class, or raises.
DeclareClass(name) ==
    /\ connectionsClass.status = "none"
    /\ connectionsClass' = ClassNew(name, dct)
    /\ UNCHANGED <<dct, configClass, config, overVars, instVars, refVars>>

\* class <name>(<bases>[, pipelineConnections=...]): the statement runs
\* PipelineTaskConfigMeta.__new__; when given, the argument is the declared
\* connections class or a class that is no connections class.
DeclareConfigClass(name, given, isConnections) ==
    /\ connectionsClass.status = "created"
    /\ isConnections => given
    /\ configClass' = ConfigClassStatement(name, given, isConnections, connectionsClass.cls)
    /\ UNCHANGED <<dct, connectionsClass, config, overVars, instVars, refVars>>

\* config = <declared class>()
ConstructConfig ==
    /\ configClass.status = "created"
    /\ config' = ConfigInstance(configClass)
    /\ UNCHANGED <<declVars, overVars, instVars, refVars>>

(***************************************************************************)
(* Classes the runs of the other specifications start from                 *)
(***************************************************************************)
NoDimensions == [iterable |-> TRUE, elems |-> {}]

\* class body:  e = <first>; c = <second>; dimensions = (); defaultTemplates = map
Body(first, second, map) ==
    SetDefaultTemplatesItem(
        SetDimensionsItem(SetItem(SetItem(EmptyDict, Exposure, first), Calexp, second),
                          NoDimensions),
        map)

\* The example of config.py: exposure = Input(name='{foo}_deep'),
\* calexp = Output(name='deep'), defaultTemplates = {'foo': 'coadd'}.
FakeBody ==
    Body(Connection("Input", NameTemplate, FALSE), Connection("Output", NamePlain, FALSE),
         TemplatesF)

\* A class whose name template uses a placeholder without default.
UncoveredBody ==
    Body(Connection("Input", NameTwo, FALSE), Connection("Output", NamePlain, FALSE),
         TemplatesF)

\* Bodies whose connections differ in role and cardinality.
RefsBodies ==
    {Body(Connection("Input", NameTemplate, m1), Connection(c, NamePlain, m2), TemplatesF) :
        m1 \in BOOLEAN, m2 \in BOOLEAN,
        c \in {"Input", "AuxiliaryInput", "Output", "InitInput"}}

(***************************************************************************)
(* Specifications                                                          *)
(***************************************************************************)
NoQuantum == [k \in {} |-> <<>>]

InitRest ==
    /\ configClass = NoConfigClass
    /\ overrides = <<>>
    /\ applied = NotApplied
    /\ instances = [a \in Addresses |-> NoInstance]
    /\ serial = 0
    /\ created = [err |-> "", address |-> 0]
    /\ objCache = EmptyCache
    /\ heap = <<>>
    /\ got = {}
    /\ quantum = NoQuantum
    /\ built = NotBuilt

\* Declaration of a connections class.
InitDecl ==
    /\ dct = EmptyDict
    /\ connectionsClass = NotDeclared
    /\ config = ResourceConfig
    /\ InitRest

NextDecl ==
    \/ \E name \in AttributeNames, value \in Connections \cup {NotAConnection} :
          DeclareAttribute(name, value)
    \/ \E value \in DimensionValues : DeclareDimensions(value)
    \/ \E map \in TemplateMaps : DeclareDefaultTemplates(map)
    \/ \E name \in ClassNames : DeclareClass(name)

SpecDecl == InitDecl /\ [][NextDecl]_vars

\* An override queue built and applied to a configuration.
InitOverrides ==
    /\ dct = FakeBody
    /\ connectionsClass = ClassNew(DerivedConnectionsName, FakeBody)
    /\ config \in {ResourceConfig, TaskConfig(connectionsClass.cls)}
    /\ InitRest

NextOverrides ==
    \/ \E filename \in FileNames : AddFileOverride(filename)
    \/ \E field \in OverridePaths, value \in OverrideValues : AddValueOverride(field, value)
    \/ \E nameDict \in NameDicts : AddDatasetNameSubstitution(nameDict)
    \/ ApplyTo

SpecOverrides == InitOverrides /\ [][NextOverrides]_vars

\* Connections instances of a configured task: created, read and destroyed.
InitInstances ==
    /\ dct \in {FakeBody, UncoveredBody}
    /\ connectionsClass = ClassNew(DerivedConnectionsName, dct)
    /\ config \in {ResourceConfig, TaskConfig(connectionsClass.cls)}
    /\ InitRest

NextInstances ==
    \/ \E name \in {Exposure, KeyF}, value \in AssignedNames : ConfigAssign(name, value)
    \/ \E given \in BOOLEAN, address \in Addresses : Create(given, address)
    \/ \E address \in Addresses, attr \in AccessedAttributes : Access(address, attr)
    \/ \E address \in Addresses : Destroy(address)

SpecInstances == InitInstances /\ [][NextInstances]_vars

\* A task instance resolving the references of quanta.
InitRefs ==
    /\ dct \in RefsBodies
    /\ connectionsClass = ClassNew(DerivedConnectionsName, dct)
    /\ config = TaskConfig(connectionsClass.cls)
    /\ InitRest

NextRefs ==
    \/ \E address \in Addresses : Create(TRUE, address)
    \/ \E q \in Quanta : MakeQuantum(q)
    \/ \E address \in Addresses : BuildDatasetRefs(address)

SpecRefs == InitRefs /\ [][NextRefs]_vars

\* Declaration of task configuration classes for a declared connections class.
InitConfigDecl ==
    /\ dct \in RefsBodies
    /\ connectionsClass = ClassNew(DerivedConnectionsName, dct)
    /\ config = ResourceConfig
    /\ InitRest

NextConfigDecl ==
    \/ \E name \in ConfigClassNames, given \in BOOLEAN, isConnections \in BOOLEAN :
          DeclareConfigClass(name, given, isConnections)
    \/ ConstructConfig
    \/ \E name \in {Exposure, KeyF}, value \in AssignedNames : ConfigAssign(name, value)

SpecConfigDecl == InitConfigDecl /\ [][NextConfigDecl]_vars

(***************************************************************************)
(* Properties of buildDatasetRefs                                          *)
(***************************************************************************)
TheClass == connectionsClass.cls

\* The attributes buildDatasetRefs resolves, and the declared descriptor of each.
RunAttributes == Range(TheClass.inputs) \cup Range(TheClass.auxiliaryInputs)
                    \cup Range(TheClass.outputs)
InputAttributes == Range(TheClass.inputs) \cup Range(TheClass.auxiliaryInputs)
Declaring(attr) == TheClass.allConnections[attr]

\* buildDatasetRefs has been called on a live instance, and the quantum holds a
\* reference list for the resolved name of every attribute.
Called ==
    /\ built.status # "none"
    /\ built.on \in Addresses
    /\ instances[built.on].live
    /\ \A attr \in RunAttributes : instances[built.on].nameOverrides[attr] \in DOMAIN quantum

Provided(attr) == quantum[instances[built.on].nameOverrides[attr]]

\* The scalar attributes for which the quantum holds another number of
\* references than one.
NotScalar == {attr \in RunAttributes : ~Declaring(attr).multiple /\ Len(Provided(attr)) # 1}

\* What the call returned under attr: the references and the identifiers.
ReturnedRefs(attr) == IF attr \in InputAttributes THEN built.inputs ELSE built.outputs
ReturnedIds(attr)  == IF attr \in InputAttributes THEN built.inputIds ELSE built.outputIds

\* C1: when the quantum holds 0 or at least 2 references for a connection
\* declared with multiple=False, buildDatasetRefs raises ScalarError with the
\* attribute name and the number of references, and returns nothing.
C1_ScalarErrorRaised ==
    (Called /\ NotScalar # {}) =>
        /\ built.status = "raised"
        /\ built.err = "ScalarError"
        /\ built.key \in NotScalar
        /\ built.count = Len(Provided(built.key))

\* C2: for a connection declared with multiple=False that has exactly one
\* reference in the quantum, buildDatasetRefs returns that reference itself and
\* its data identifier under the attribute name.
C2_SingleReferenceUnwrapped ==
    (Called /\ NotScalar = {}) =>
        \A attr \in RunAttributes :
            ~Declaring(attr).multiple =>
                /\ built.status = "returned"
                /\ attr \in DOMAIN ReturnedRefs(attr)
                /\ ReturnedRefs(attr)[attr] = [list |-> FALSE, items |-> <<Provided(attr)[1]>>]
                /\ ReturnedIds(attr)[attr] =
                      [list |-> FALSE, items |-> <<Provided(attr)[1].dataId>>]

\* C3: for a connection declared with multiple=True, buildDatasetRefs returns
\* the list of all its references and the list of their identifiers, in the
\* order of the quantum, whatever their number.
C3_MultipleReferencesListed ==
    (Called /\ NotScalar = {}) =>
        \A attr \in RunAttributes :
            Declaring(attr).multiple =>
                /\ built.status = "returned"
                /\ attr \in DOMAIN ReturnedRefs(attr)
                /\ ReturnedRefs(attr)[attr] = [list |-> TRUE, items |-> Provided(attr)]
                /\ ReturnedIds(attr)[attr] = [list |-> TRUE, items |-> DataIds(Provided(attr))]

(***************************************************************************)
(* Properties of the class declaration                                     *)
(***************************************************************************)
\* The placeholders of the connection names of the class body.
Placeholders(d) ==
    {it.field_name : it \in {x \in AllTemplates(d) : x.field_name # None}}

\* A derived connections class has been declared, with a usable dimensions
\* attribute and connection names that parse.
DerivedDeclared ==
    /\ connectionsClass.status # "none"
    /\ connectionsClass.declared # BaseConnectionsName
    /\ dct.dimensions.present /\ dct.dimensions.iterable
    /\ ParseErrors(dct) = {}

\* C4: when the keys of defaultTemplates are a strict subset of the
\* placeholders of the connection names, the class declaration fails with a
\* TypeError (the DefinitionError of the class builder).
C4_MissingTemplateKeysRejected ==
    (/\ DerivedDeclared
     /\ dct.defaultTemplates.present
     /\ DOMAIN dct.defaultTemplates.map \subseteq Placeholders(dct)
     /\ DOMAIN dct.defaultTemplates.map # Placeholders(dct))
        => (connectionsClass.status = "error" /\ connectionsClass.err = "TypeError")

\* C5: a class that declares dimensions and connections whose non-empty names
\* hold no placeholder, and no defaultTemplates, is declared without error.
C5_NoTemplatesNeededWithoutPlaceholders ==
    (/\ DerivedDeclared
     /\ DOMAIN dct.allConnections # {}
     /\ \A a \in DOMAIN dct.allConnections : dct.allConnections[a].name # <<>>
     /\ Placeholders(dct) = {}
     /\ ~dct.defaultTemplates.present)
        => connectionsClass.status = "created"

(***************************************************************************)
(* Properties of the override queue                                        *)
(***************************************************************************)
Max(S) == CHOOSE x \in S : \A y \in S : y <= x

\* The field a dotted path names exists in the configuration.
FieldExists(cfg, path) ==
    LET field == Split(path)
    IN  IF Len(field) = 1 THEN field[1] \in DOMAIN cfg.values
        ELSE /\ Len(field) = 2 /\ cfg.hasConnections /\ field[1] = ConnectionsName
             /\ field[2] \in DOMAIN cfg.connections

\* The value and the declared type of an existing field.
ReadField(cfg, path) ==
    LET field == Split(path)
    IN  IF Len(field) = 1 THEN cfg.values[field[1]] ELSE cfg.connections[field[2]]

DeclaredType(cfg, path) ==
    LET field == Split(path)
    IN  IF Len(field) = 1 THEN cfg.dtypes[field[1]] ELSE "str"

\* The entries of the queue the last applyTo replayed.
Replayed == 1..applied.n

ValueEntries(path) ==
    {i \in Replayed : overrides[i].otype = "value" /\ overrides[i].field = path}

\* The entries after entry j that are no value override and write the field.
OtherWriters(path, j) ==
    {i \in Replayed :
        /\ i > j
        /\ \/ /\ overrides[i].otype = "file"
              /\ \E st \in Range(FileContents(overrides[i].filename).statements) :
                    st.field = path
           \/ /\ overrides[i].otype = "namesDict"
              /\ \E k \in DOMAIN overrides[i].nameDict : path = PathOf(ConnectionsName, k)}

\* The value a value override means for a field: its text read as a literal
\* when the field is not textual, the value itself otherwise.
Meant(cfg, o) ==
    IF o.value.t = "str" /\ DeclaredType(cfg, o.field) # "str"
    THEN LiteralEval(o.value.s).value ELSE o.value

\* C6 as stated: after applyTo completes, a field that two or more value
\* overrides of the queue target holds the value of the last of them.
C6_LastValueOverrideWins ==
    applied.status = "ok" =>
        \A path \in OverridePaths :
            Cardinality(ValueEntries(path)) >= 2 =>
                ReadField(config, path) = Meant(config, overrides[Max(ValueEntries(path))])

\* C6 amended: after applyTo completes, a field that two or more value
\* overrides of the queue target holds the value of the last of them, unless a
\* later entry of another kind (a file override) writes the field.
C6_LastValueOverrideWinsAmongValues ==
    applied.status = "ok" =>
        \A path \in OverridePaths :
            (/\ Cardinality(ValueEntries(path)) >= 2
             /\ OtherWriters(path, Max(ValueEntries(path))) = {}) =>
                ReadField(config, path) = Meant(config, overrides[Max(ValueEntries(path))])

\* Two value overrides with different values for one field were replayed, and
\* the field holds the second value.
C6_Witness ==
    /\ applied.status = "ok"
    /\ \E path \in OverridePaths : \E i, j \in ValueEntries(path) :
          /\ i < j /\ j = Max(ValueEntries(path))
          /\ OtherWriters(path, j) = {}
          /\ Meant(config, overrides[i]) # Meant(config, overrides[j])
          /\ ReadField(config, path) = Meant(config, overrides[j])

\* The configuration is a task configuration whose connections class declares
\* templates.
Templated(cfg) ==
    /\ cfg.isPipelineTaskConfig
    /\ TheClass.defaultTemplates.present
    /\ DOMAIN TheClass.defaultTemplates.map # {}

\* C7: a template-substitution override makes applyTo fail with the
\* validation error on a configuration that is not templated, and on a
\* templated configuration applyTo succeeds and the template fields of the
\* connections sub-object hold the values of the mapping.
C7_TemplateSubstitutionApplied ==
    (applied.status # "none" /\ applied.n = 1 /\ overrides[1].otype = "namesDict") =>
        IF Templated(config)
        THEN /\ applied.status = "ok"
             /\ \A k \in DOMAIN overrides[1].nameDict \cap DOMAIN config.connections :
                   config.connections[k] = PyStr(overrides[1].nameDict[k])
        ELSE /\ applied.status = "raised"
             /\ applied.err = "RuntimeError(Dataset name substitution)"

\* C9: a text value override on a field that is not textual assigns the
\* literal the text denotes (and fails only when the text is no literal of the
\* field's type); on a textual field it assigns the text itself and never
\* fails.  Text "5" gives integer 5 on an integer field, "5" on a str field.
C9_TextParsedUnlessFieldTextual ==
    /\ applied.status = "ok" =>
          \A path \in OverridePaths :
              (/\ ValueEntries(path) # {}
               /\ overrides[Max(ValueEntries(path))].value.t = "str"
               /\ OtherWriters(path, Max(ValueEntries(path))) = {}) =>
                  LET text == overrides[Max(ValueEntries(path))].value.s
                  IN  /\ DeclaredType(config, path) # "str" =>
                            /\ LiteralEval(text).err = ""
                            /\ ReadField(config, path) = LiteralEval(text).value
                            /\ text = <<"5">> => ReadField(config, path) = PyInt(5)
                      /\ DeclaredType(config, path) = "str" =>
                            ReadField(config, path) = PyStr(text)
    /\ (/\ applied.status = "raised"
        /\ overrides[applied.at].otype = "value"
        /\ overrides[applied.at].value.t = "str"
        /\ FieldExists(config, overrides[applied.at].field)) =>
          LET o == overrides[applied.at]
          IN  /\ DeclaredType(config, o.field) # "str"
              /\ \/ LiteralEval(o.value.s).err # ""
                 \/ LiteralEval(o.value.s).value.t # DeclaredType(config, o.field)

\* Text "5" was applied last to an integer field, which holds 5, or to a str
\* field, which holds "5".
C9_Witness ==
    /\ applied.status = "ok"
    /\ \E path \in OverridePaths :
          /\ ValueEntries(path) # {}
          /\ overrides[Max(ValueEntries(path))].value = PyStr(<<"5">>)
          /\ OtherWriters(path, Max(ValueEntries(path))) = {}
          /\ \/ DeclaredType(config, path) = "int" /\ ReadField(config, path) = PyInt(5)
             \/ DeclaredType(config, path) = "str" /\ ReadField(config, path) = PyStr(<<"5">>)

(***************************************************************************)
(* Properties of connections instances                                     *)
(***************************************************************************)
\* C8: accesses of one connection attribute return the same object when made
\* on the same instance, and different objects when made on different
\* instances.
C8_OneObjectPerInstance ==
    \A x, y \in got :
        (x.obj # 0 /\ y.obj # 0 /\ x.attr = y.attr) =>
            (x.serial = y.serial <=> x.obj = y.obj)

\* The text of a connections field of the configuration.
FieldText(name) == config.connections[name].s

\* C10: a newly constructed instance maps every attribute of allConnections to
\* the current value of the attribute's field in config.connections, formatted
\* with the current value of the field of every key of defaultTemplates.
C10_NameOverridesFromConfig ==
    [][\A a \in Addresses :
          (instances'[a].live /\ instances'[a] # instances[a]) =>
              /\ DOMAIN instances'[a].nameOverrides = DOMAIN TheClass.allConnections
              /\ \A attr \in DOMAIN TheClass.allConnections :
                    instances'[a].nameOverrides[attr] =
                        Format(FieldText(attr),
                               [k \in DOMAIN TheClass.defaultTemplates.map |-> FieldText(k)]).s
              /\ (FieldText(Exposure) = NameTemplate /\ FieldText(KeyF) = <<"{", "g", "}">>) =>
                    instances'[a].nameOverrides[Exposure] = <<"{", "g", "}", "a">>
              /\ FieldText(Exposure) = <<"b">> =>
                    instances'[a].nameOverrides[Exposure] = <<"b">>]_vars

\* An instance lives whose name for exposure is the overridden field value,
\* not the declared name formatted.
C10_Witness ==
    \E a \in Addresses :
        /\ instances[a].live
        /\ TheClass.allConnections[Exposure].name = NameTemplate
        /\ instances[a].nameOverrides[Exposure] = <<"b">>

\* The instance created as the serial-th one, while it lives.
LiveWithSerial(n) == {a \in Addresses : instances[a].live /\ instances[a].serial = n}

\* C11: every descriptor an access returned for a connection attribute of an
\* instance carries that instance's nameOverrides entry of the attribute as
\* its name and the class-level descriptor's value in every other field,
\* whatever instances were created and destroyed before with other
\* configurations.
C11_AccessReturnsOwnName ==
    \A g \in got : \A a \in LiveWithSerial(g.serial) :
        g.obj # 0 =>
            /\ heap[g.obj].name = instances[a].nameOverrides[g.attr]
            /\ \A f \in Fields(TheClass.data[g.attr]) \ {"name"} :
                  heap[g.obj][f] = TheClass.data[g.attr][f]

(***************************************************************************)
(* Properties of a failing replay                                          *)
(***************************************************************************)
\* The configuration after every entry of q took its whole effect, in order.
RECURSIVE AfterEntries(_, _)
AfterEntries(cfg, q) ==
    IF q = <<>> THEN cfg ELSE AfterEntries(ApplyOne(cfg, Head(q)).config, Tail(q))

\* The configuration after the given statements of a file assigned, in order.
RECURSIVE AfterStatements(_, _)
AfterStatements(cfg, statements) ==
    IF statements = <<>> THEN cfg
    ELSE AfterStatements(Assign(cfg, Head(statements).field, Head(statements).value).config,
                         Tail(statements))

\* A step in which applyTo replayed the queue and raised.
ReplayRaised == overrides' = overrides /\ applied'.status = "raised"

\* The entries before the one that raised, and the configuration they leave.
PrefixOfFailure == SubSeq(overrides, 1, applied'.at - 1)
BeforeFailure   == AfterEntries(config, PrefixOfFailure)

\* The entries before the one that raised all succeed, and the exception
\* reported is the one the entry raises on the configuration they leave.
RaisedAtThatEntry ==
    /\ applied'.at \in 1..Len(overrides)
    /\ ApplyFrom(config, PrefixOfFailure, 1).err = ""
    /\ ApplyOne(BeforeFailure, overrides[applied'.at]).err = applied'.err
    /\ applied'.err # ""

\* C12 as stated: when an entry raises during applyTo, the exception is
\* reported at that entry and the configuration holds exactly the effects of
\* the entries before it: nothing of the failing entry and nothing of a later
\* entry.
C12_FailureKeepsExactlyThePrefix ==
    [][ReplayRaised => (RaisedAtThatEntry /\ config' = BeforeFailure)]_vars

\* C12 amended: when an entry raises during applyTo, the exception is reported
\* at that entry, no later entry is applied, and the configuration holds the
\* effects of the entries before it, followed, when the failing entry is a
\* file override, by the assignments of the file's statements before the one
\* that raised; a failing value override or name substitution adds nothing.
C12_FailureKeepsPrefixAndFileStatementsRun ==
    [][ReplayRaised =>
         /\ RaisedAtThatEntry
         /\ LET o == overrides[applied'.at]
                statements == FileContents(o.filename).statements
            IN  IF o.otype = "file" /\ statements # <<>>
                THEN \E k \in 0..(Len(statements) - 1) :
                        /\ config' = AfterStatements(BeforeFailure, SubSeq(statements, 1, k))
                        /\ Assign(config', statements[k + 1].field,
                                  statements[k + 1].value).err = applied'.err
                ELSE config' = BeforeFailure]_vars

\* A replay raised at its second entry, a file whose second statement fails:
\* the value the first entry set and the value the file's first statement set
\* are in the configuration, the value the third entry would set is not.
C12_Witness ==
    /\ applied.status = "raised" /\ applied.at = 2 /\ applied.n = 3
    /\ overrides[1] = ValueOverride(MinNumCores, PyInt(2))
    /\ overrides[2] = FileOverride(FilePartial)
    /\ overrides[3] = ValueOverride(MinNumCores, PyInt(1))
    /\ ~config.hasConnections
    /\ config.values[MinNumCores] = PyInt(2)
    /\ config.values[MinMemoryMB] = PyInt(3)

(***************************************************************************)
(* Properties of the connection registry                                   *)
(***************************************************************************)
\* The role lists of the registry, by the class a descriptor must be an
\* instance of to be in them.
RoleLists(d) ==
    [Input |-> d.inputs, AuxiliaryInput |-> d.auxiliaryInputs, Output |-> d.outputs,
     InitInput |-> d.initInputs, InitOutput |-> d.initOutputs]

Occurrences(list, name) == Cardinality({i \in DOMAIN list : list[i] = name})

\* C13: after any insertions into the registry, every key of allConnections
\* is once in the role list of the descriptor stored under it and in no other
\* role list, and every name of a role list is a key of allConnections.
C13_RoleListsMatchAllConnections ==
    /\ \A name \in DOMAIN dct.allConnections : \A role \in DOMAIN RoleLists(dct) :
          Occurrences(RoleLists(dct)[role], name) =
              IF dct.allConnections[name].class = role THEN 1 ELSE 0
    /\ \A role \in DOMAIN RoleLists(dct) :
          Range(RoleLists(dct)[role]) \subseteq DOMAIN dct.allConnections

(***************************************************************************)
(* Properties of task configuration class statements                       *)
(***************************************************************************)
\* C14: the statement declaring the base class PipelineTaskConfig, which
\* passes no pipelineConnections, makes the class and raises nothing; only a
\* derived class needs the argument.
C14_BaseConfigDeclared ==
    (/\ configClass.status # "none"
     /\ configClass.name = PipelineTaskConfigName
     /\ ~configClass.given) =>
        (configClass.status = "created" /\ configClass.err = "")

====
